---- MODULE Spec2Model ----
\* A model of Graph.js: the stateful Graph / Edge constructors and the
\* functional graph.* and edge.* libraries.
EXTENDS Integers, Sequences, FiniteSets, TLC

\* ---------------------------------------------------------------- bounds
MaxV == 2       \* longest vertex array of G
MaxE == 2       \* longest edge array of G
MaxList == 2    \* longest list handed to addVertices / addEdges
MaxCAdds == 1   \* most elements added to a complement after its construction

\* ------------------------------------------------------ JavaScript values
\* Two vertex objects (compared by identity only), a number, a string,
\* undefined and null; the directed flag of an edge is undefined (argument
\* omitted) or true.
Objects == {"a", "b"}
Undef == "undefined"
Null == "null"
Values == Objects \cup {"num5", "strHello", Undef, Null}
Flags == {Undef, "true"}

\* typeof v
typeof(v) ==
  IF v = Undef THEN "undefined"
  ELSE IF v = "num5" THEN "number"
  ELSE IF v = "strHello" THEN "string"
  ELSE IF v \in {"true", "false"} THEN "boolean"
  ELSE "object"

\* ToBoolean(v), as used by !v, || and if (v)
Truthy(v) == v \notin {Undef, Null, "false"}

\* ------------------------------------------------------------------ Edge
\* new Edge(v1, v2, directed): throws on a falsy endpoint, else stores the
\* three arguments verbatim.
Edge(v1, v2, directed) ==
  IF (~Truthy(v1)) \/ (~Truthy(v2))
  THEN [thrown |-> TRUE]
  ELSE [thrown |-> FALSE,
        value |-> [v1 |-> v1, v2 |-> v2, directed |-> directed]]

\* Every object with the fields of an edge, well-formed or not (an object
\* literal can lack an endpoint).
EdgeLike == [v1 : Objects \cup {Undef}, v2 : Objects \cup {Undef}, directed : Flags]

\* The edges the constructor can return: it stores its arguments verbatim.
Edges == {e \in EdgeLike : ~Edge(e.v1, e.v2, e.directed).thrown}

\* The edge arguments handed to addEdge and addEdges: constructed edges and
\* object literals lacking an endpoint.
EdgeArgs == Edges \cup {e \in EdgeLike : e \notin Edges /\ e.directed = Undef}

\* ------------------------------------------------------------ edge.*
edge_isLoop(e) == e.v1 = e.v2

edge_isLink(e) == ~edge_isLoop(e)

\* edge.equal taking the ordered branch only when both edges are directed
edge_equalBothDirected(e1, e2) ==
  IF Truthy(e1.directed) /\ Truthy(e2.directed)
  THEN e1.v1 = e2.v1 /\ e1.v2 = e2.v2
  ELSE \/ (e1.v1 = e2.v1 /\ e1.v2 = e2.v2)
       \/ (e1.v1 = e2.v2 /\ e1.v2 = e2.v1)

\* edge.equal looking at the flag of its first argument only
edge_equalFirstDirected(e1, e2) ==
  IF Truthy(e1.directed)
  THEN e1.v1 = e2.v1 /\ e1.v2 = e2.v2
  ELSE \/ (e1.v1 = e2.v1 /\ e1.v2 = e2.v2)
       \/ (e1.v1 = e2.v2 /\ e1.v2 = e2.v1)

\* edge.equal comparing in the given order whatever the flags
edge_equalOrdered(e1, e2) == e1.v1 = e2.v1 /\ e1.v2 = e2.v2

edge_equal(e1, e2) ==
  IF Truthy(e1.directed) \/ Truthy(e2.directed)
  THEN e1.v1 = e2.v1 /\ e1.v2 = e2.v2
  ELSE \/ (e1.v1 = e2.v1 /\ e1.v2 = e2.v2)
       \/ (e1.v1 = e2.v2 /\ e1.v2 = e2.v1)

\* for (var key in G.E) { if (edge.equal(G.E[key], e)) m++ }, from index k on
RECURSIVE multiplicityLoop(_, _, _, _)
multiplicityLoop(e, E, k, m) ==
  IF k > Len(E) THEN m
  ELSE multiplicityLoop(e, E, k + 1, IF edge_equal(E[k], e) THEN m + 1 ELSE m)

\* edge.multiplicity leaving out the first entry of G.E
edge_multiplicityFromSecond(e, E) == multiplicityLoop(e, E, 2, 0)

edge_multiplicity(e, E) == multiplicityLoop(e, E, 1, 0)

edge_isMultiple(e, E) == edge_multiplicity(e, E) > 1

edge_isSimple(e, E) == edge_multiplicity(e, E) = 1

\* ------------------------------------------------------------ graph.*
graph_order(V) == Len(V)

graph_size(E) == Len(E)

RECURSIVE graphMultiplicityLoop(_, _, _)
graphMultiplicityLoop(E, i, max) ==
  IF i > Len(E) THEN max
  ELSE LET eMultiplicity == edge_multiplicity(E[i], E)
       IN graphMultiplicityLoop(E, i + 1,
                                IF max < eMultiplicity THEN eMultiplicity ELSE max)

graph_multiplicity(E) == graphMultiplicityLoop(E, 1, 0)

RECURSIVE hasLoopsFrom(_, _)
hasLoopsFrom(E, i) ==
  IF i > Len(E) THEN FALSE
  ELSE IF edge_isLoop(E[i]) THEN TRUE
  ELSE hasLoopsFrom(E, i + 1)

graph_hasLoops(E) == hasLoopsFrom(E, 1)

\* graph.isMulti asking for a multiplicity above 1
graph_isMultiAbove(E) == graph_multiplicity(E) > 1

graph_isMulti(E) == graph_multiplicity(E) # 1

graph_isSimple(E) == ~(graph_hasLoops(E) \/ graph_isMulti(E))

graph_isPseudo(E) == graph_hasLoops(E) /\ (graph_multiplicity(E) # 1)

RECURSIVE containsEdgeFrom(_, _, _)
containsEdgeFrom(E, e, i) ==
  IF i > Len(E) THEN FALSE
  ELSE IF edge_equal(e, E[i]) THEN TRUE
  ELSE containsEdgeFrom(E, e, i + 1)

graph_containsEdge(E, e) == containsEdgeFrom(E, e, 1)

graph_isAntiEdge(E, e) == ~graph_containsEdge(E, e)

\* ----------------------------------------------------------------- Graph
\* The arrays of the program live in a heap, and a graph object holds
\* references to its two arrays and to the cell of its closure variable
\* _directed: G is the graph under population, C the variable of the caller
\* that receives the result of graph.complement(G).
VARIABLES heap, C, last

vars == <<heap, C, last>>

Nil == "nil"
G == [V |-> "GV", E |-> "GE", _directed |-> "G_directed"]

\* The references the heap holds: arrays and _directed cells
Arrays == {"GV", "GE", "CV", "CE"}
Cells == {"G_directed", "C_directed"}

\* What the last call did: its name, whether it threw, and what it returned
\* (num: a count, or the number of elements a population call appended;
\* bool: a predicate's answer).
Result(op, thrown, num, bool) ==
  [op |-> op, thrown |-> thrown, num |-> num, bool |-> bool, value |-> Undef]

\* arguments[name] of a call with the given argument list: the arguments
\* object has the indices of the list and length, and nothing else.
argumentsProperty(arguments, name) ==
  IF name = "length" THEN Len(arguments)
  ELSE IF name = "0" /\ Len(arguments) >= 1 THEN arguments[1]
  ELSE Undef

\* new Graph(...arguments), the new object being g: this.V = [];
\* this.E = [] -- two fresh, empty arrays; var _directed = arguments.directed
Graph(h, g, arguments) ==
  [graph |-> g,
   heap |-> [h EXCEPT ![g.V] = <<>>, ![g.E] = <<>>,
                      ![g._directed] = argumentsProperty(arguments, "directed")]]

\* this.directed(toggle) on the cell d of _directed: the cell it leaves and
\* the value it returns
Graph_directed(d, toggle) ==
  LET _directed == IF Truthy(toggle)
                   THEN (IF Truthy(d) THEN "false" ELSE "true")
                   ELSE d
  IN [cell |-> _directed, value |-> _directed]

\* addVertex keeping V free of duplicates
addVertexUnique(V, v) ==
  IF typeof(v) # "object"
  THEN [thrown |-> TRUE, arr |-> V]
  ELSE IF \E i \in DOMAIN V : V[i] = v
  THEN [thrown |-> FALSE, arr |-> V]
  ELSE [thrown |-> FALSE, arr |-> Append(V, v)]

\* this.addVertex(v) on the array V
addVertex(V, v) ==
  IF typeof(v) # "object"
  THEN [thrown |-> TRUE, arr |-> V]
  ELSE [thrown |-> FALSE, arr |-> Append(V, v)]

\* this.addVertices(list): for (var i in list) this.addVertex(list[i])
RECURSIVE addVerticesLoop(_, _, _)
addVerticesLoop(V, list, i) ==
  IF i > Len(list) THEN [thrown |-> FALSE, arr |-> V, n |-> i - 1]
  ELSE LET r == addVertex(V, list[i])
       IN IF r.thrown THEN [thrown |-> TRUE, arr |-> V, n |-> i - 1]
          ELSE addVerticesLoop(r.arr, list, i + 1)

\* addVertices undoing its pushes when an element fails
addVerticesAtomic(V, list) ==
  LET r == addVerticesLoop(V, list, 1)
  IN IF r.thrown THEN [thrown |-> TRUE, arr |-> V, n |-> 0] ELSE r

addVertices(V, list) == addVerticesLoop(V, list, 1)

\* this.addEdge(e) on the array E
addEdge(E, e) ==
  IF (~Truthy(e.v1)) \/ (~Truthy(e.v2))
  THEN [thrown |-> TRUE, arr |-> E]
  ELSE [thrown |-> FALSE, arr |-> Append(E, e)]

\* this.addEdges(list): for (var i in list) this.addEdge(list[i])
RECURSIVE addEdgesLoop(_, _, _)
addEdgesLoop(E, list, i) ==
  IF i > Len(list) THEN [thrown |-> FALSE, arr |-> E, n |-> i - 1]
  ELSE LET r == addEdge(E, list[i])
       IN IF r.thrown THEN [thrown |-> TRUE, arr |-> E, n |-> i - 1]
          ELSE addEdgesLoop(r.arr, list, i + 1)

addEdges(E, list) == addEdgesLoop(E, list, 1)

\* graph.complement handing the array G.V itself to the new graph
complementVerticesShared(h, c) ==
  [thrown |-> FALSE, graph |-> [c EXCEPT !.V = G.V], heap |-> h]

\* graph.complement, the vertices: C.addVertices(G.V) copies the entries of
\* G.V into the array of the new graph c.
complementVertices(h, c) ==
  LET r == addVertices(h[c.V], h[G.V])
  IN [thrown |-> r.thrown, graph |-> c, heap |-> [h EXCEPT ![c.V] = r.arr]]

\* graph.complement, the edges: for (var i in G.V) for (var j in G.V), the
\* p-th pair on; CE is the edge array of the new graph.
RECURSIVE complementLoop(_, _, _, _)
complementLoop(V, E, CE, p) ==
  IF p >= Len(V) * Len(V) THEN [thrown |-> FALSE, arr |-> CE]
  ELSE LET i == (p \div Len(V)) + 1
           j == (p % Len(V)) + 1
           e == Edge(V[i], V[j], Undef)
       IN IF e.thrown THEN [thrown |-> TRUE, arr |-> CE]
          ELSE IF graph_isAntiEdge(E, e.value)
          THEN LET r == addEdge(CE, e.value)
               IN IF r.thrown THEN [thrown |-> TRUE, arr |-> CE]
                  ELSE complementLoop(V, E, r.arr, p + 1)
          ELSE complementLoop(V, E, CE, p + 1)

\* graph.complement(G) run on the heap h: the heap it leaves, the graph it
\* returns, and whether it threw instead.
graph_complement(h) ==
  LET n == Graph(h, [V |-> "CV", E |-> "CE", _directed |-> "C_directed"], <<>>)
      cv == complementVertices(n.heap, n.graph)
      c == cv.graph
      ce == IF cv.thrown THEN [thrown |-> TRUE, arr |-> cv.heap[c.E]]
            ELSE complementLoop(cv.heap[G.V], cv.heap[G.E], cv.heap[c.E], 0)
  IN [thrown |-> ce.thrown, graph |-> c,
      heap |-> [cv.heap EXCEPT ![c.E] = ce.arr]]

\* Lists of at most n elements of S
ListsOf(S, n) == UNION {[1..k -> S] : k \in 0..n}

\* The elements of the lists handed to addVertices and to addEdges, and what
\* is added to a complement: a vertex, null and a number; an undirected
\* edge, a directed one and an object lacking an endpoint.
ListVertices == {"a", Null, "num5"}

ListEdges ==
  {[v1 |-> "a", v2 |-> "b", directed |-> Undef],
   [v1 |-> "b", v2 |-> "a", directed |-> "true"],
   [v1 |-> "a", v2 |-> Undef, directed |-> Undef]}

\* The graphs a caller holds
Live(g) == g.V # Nil

Init ==
  /\ heap = [r \in Arrays \cup Cells |-> IF r \in Arrays THEN <<>> ELSE Undef]
  /\ C = [V |-> Nil, E |-> Nil, _directed |-> Nil]
  /\ last = Result("new Graph", FALSE, 0, FALSE)

\* g.addVertex(v)
AddVertex(g, v) ==
  /\ Live(g)
  /\ Len(heap[g.V]) < MaxV
  /\ LET r == addVertex(heap[g.V], v)
     IN /\ heap' = [heap EXCEPT ![g.V] = r.arr]
        /\ last' = Result("addVertex", r.thrown, IF r.thrown THEN 0 ELSE 1, FALSE)
  /\ UNCHANGED C

\* g.addVertices(list)
AddVertices(g, list) ==
  /\ Live(g)
  /\ Len(heap[g.V]) + Len(list) <= MaxV
  /\ LET r == addVertices(heap[g.V], list)
     IN /\ heap' = [heap EXCEPT ![g.V] = r.arr]
        /\ last' = Result("addVertices", r.thrown, r.n, FALSE)
  /\ UNCHANGED C

\* g.addEdge(e)
AddEdge(g, e) ==
  /\ Live(g)
  /\ Len(heap[g.E]) < MaxE
  /\ LET r == addEdge(heap[g.E], e)
     IN /\ heap' = [heap EXCEPT ![g.E] = r.arr]
        /\ last' = Result("addEdge", r.thrown, IF r.thrown THEN 0 ELSE 1, FALSE)
  /\ UNCHANGED C

\* g.addEdges(list)
AddEdges(g, list) ==
  /\ Live(g)
  /\ Len(heap[g.E]) + Len(list) <= MaxE
  /\ LET r == addEdges(heap[g.E], list)
     IN /\ heap' = [heap EXCEPT ![g.E] = r.arr]
        /\ last' = Result("addEdges", r.thrown, r.n, FALSE)
  /\ UNCHANGED C

\* new Edge(v1, v2, directed)
NewEdge(v1, v2, directed) ==
  /\ last' = Result("new Edge", Edge(v1, v2, directed).thrown, 0, FALSE)
  /\ UNCHANGED <<heap, C>>

\* The pure functions, applied to a live graph g and to constructed edges.
Pure(op, num, bool) ==
  /\ last' = Result(op, FALSE, num, bool)
  /\ UNCHANGED <<heap, C>>

Order(g) == Live(g) /\ Pure("order", graph_order(heap[g.V]), FALSE)

Size(g) == Live(g) /\ Pure("size", graph_size(heap[g.E]), FALSE)

Multiplicity(g) ==
  Live(g) /\ Pure("multiplicity", graph_multiplicity(heap[g.E]), FALSE)

HasLoops(g) == Live(g) /\ Pure("hasLoops", 0, graph_hasLoops(heap[g.E]))

IsSimple(g) == Live(g) /\ Pure("isSimple", 0, graph_isSimple(heap[g.E]))

IsMulti(g) == Live(g) /\ Pure("isMulti", 0, graph_isMulti(heap[g.E]))

IsPseudo(g) == Live(g) /\ Pure("isPseudo", 0, graph_isPseudo(heap[g.E]))

ContainsEdge(g, e) ==
  Live(g) /\ Pure("containsEdge", 0, graph_containsEdge(heap[g.E], e))

IsAntiEdge(g, e) ==
  Live(g) /\ Pure("isAntiEdge", 0, graph_isAntiEdge(heap[g.E], e))

EdgeIsLoop(e) == Pure("edge.isLoop", 0, edge_isLoop(e))

EdgeIsLink(e) == Pure("edge.isLink", 0, edge_isLink(e))

\* edge.equal applied to a constructed edge and the i-th edge of g
EdgeEqual(e1, g, i) ==
  Live(g) /\ Pure("edge.equal", 0, edge_equal(e1, heap[g.E][i]))

EdgeMultiplicity(e, g) ==
  Live(g) /\ Pure("edge.multiplicity", edge_multiplicity(e, heap[g.E]), FALSE)

EdgeIsMultiple(e, g) ==
  Live(g) /\ Pure("edge.isMultiple", 0, edge_isMultiple(e, heap[g.E]))

EdgeIsSimple(e, g) ==
  Live(g) /\ Pure("edge.isSimple", 0, edge_isSimple(e, heap[g.E]))

\* Lists short enough for the room left in an array of at most max entries
Room(arr, max) == IF max - Len(arr) < MaxList THEN max - Len(arr) ELSE MaxList

Populate(g) ==
  \/ \E v \in Values : AddVertex(g, v)
  \/ \E list \in ListsOf(ListVertices, Room(heap[g.V], MaxV)) : AddVertices(g, list)
  \/ \E e \in EdgeArgs : AddEdge(g, e)
  \/ \E list \in ListsOf(ListEdges, Room(heap[g.E], MaxE)) : AddEdges(g, list)

\* The indices of the edge array of g
Entries(g) == IF Live(g) THEN DOMAIN heap[g.E] ELSE {}

Query(g) ==
  \/ Order(g)
  \/ Size(g)
  \/ Multiplicity(g)
  \/ HasLoops(g)
  \/ IsSimple(g)
  \/ IsMulti(g)
  \/ IsPseudo(g)
  \/ \E e \in Edges : ContainsEdge(g, e)
  \/ \E e \in Edges : IsAntiEdge(g, e)
  \/ \E e \in Edges : EdgeIsLoop(e)
  \/ \E e \in Edges : EdgeIsLink(e)
  \/ \E e1 \in Edges, i \in Entries(g) : EdgeEqual(e1, g, i)
  \/ \E e \in Edges : EdgeMultiplicity(e, g)
  \/ \E e \in Edges : EdgeIsMultiple(e, g)
  \/ \E e \in Edges : EdgeIsSimple(e, g)

\* A caller constructing edges and populating one graph G.
Next ==
  \/ Populate(G)
  \/ \E v1 \in Objects \cup {Undef, Null}, v2 \in Objects \cup {Undef, Null},
        d \in Flags : NewEdge(v1, v2, d)

Spec == Init /\ [][Next]_vars

\* ------------------------------------------------------------ complement
\* C = graph.complement(G). When the call throws, the caller's C is not
\* assigned and the arrays of the abandoned graph are unreachable.
Complement ==
  LET r == graph_complement(heap)
  IN IF r.thrown
     THEN /\ heap' = [r.heap EXCEPT !["CV"] = heap["CV"], !["CE"] = heap["CE"],
                                    !["C_directed"] = heap["C_directed"]]
          /\ last' = Result("complement", TRUE, 0, FALSE)
          /\ UNCHANGED C
     ELSE /\ heap' = r.heap
          /\ C' = r.graph
          /\ last' = Result("complement", FALSE, 0, FALSE)

\* The vertices an array V can hold, and the graphs G a caller can have built.
Storable == {v \in Values : ~addVertex(<<>>, v).thrown}

Built(vertices, edges) ==
  {[r \in Arrays \cup Cells |->
      IF r = "GV" THEN V ELSE IF r = "GE" THEN E
      ELSE IF r \in Arrays THEN <<>> ELSE Undef] :
     V \in ListsOf(vertices \cap Storable, MaxV),
     E \in ListsOf(edges \cap Edges, MaxE)}

\* The edges of the graphs whose complement is taken: an undirected link, a
\* directed link and a loop.
ComplementEdges ==
  {[v1 |-> "a", v2 |-> "b", directed |-> Undef],
   [v1 |-> "a", v2 |-> "b", directed |-> "true"],
   [v1 |-> "a", v2 |-> "a", directed |-> Undef]}

InitC ==
  /\ heap \in Built(Values, ComplementEdges)
  /\ C = [V |-> Nil, E |-> Nil, _directed |-> Nil]
  /\ last = Result("new Graph", FALSE, 0, FALSE)

\* The number of entries C holds beyond those its construction gave it.
AddedToC ==
  IF ~Live(C) THEN 0
  ELSE LET r == graph_complement(heap)
       IN (Len(heap[C.V]) - Len(r.heap[r.graph.V]))
          + (Len(heap[C.E]) - Len(r.heap[r.graph.E]))

\* A caller taking the complement of a built graph G, adding to the result
\* and querying it.
NextC ==
  \/ Complement
  \/ /\ AddedToC < MaxCAdds
     /\ \/ \E v \in ListVertices : AddVertex(C, v)
        \/ \E e \in ListEdges : AddEdge(C, e)
  \/ Query(C)

SpecC == InitC /\ [][NextC]_vars

\* A caller querying a built graph G. The queries read the edges of G and
\* the length of G.V, never the vertices G.V holds, so one vertex fills G.V.
InitQ ==
  /\ heap \in Built({"a"}, Edges)
  /\ C = [V |-> Nil, E |-> Nil, _directed |-> Nil]
  /\ last = Result("new Graph", FALSE, 0, FALSE)

NextQ == Query(G)

SpecQ == InitQ /\ [][NextQ]_vars

\* -------------------------------------------------------------- directed
\* G = new Graph(...arguments): the caller's G is a newly constructed graph
Construct(arguments) ==
  /\ heap' = Graph(heap, G, arguments).heap
  /\ last' = Result("new Graph", FALSE, 0, FALSE)
  /\ UNCHANGED C

\* g.directed(toggle)
Directed(g, toggle) ==
  /\ Live(g)
  /\ LET r == Graph_directed(heap[g._directed], toggle)
     IN /\ heap' = [heap EXCEPT ![g._directed] = r.cell]
        /\ last' = [Result("directed", FALSE, 0, FALSE) EXCEPT !.value = r.value]
  /\ UNCHANGED C

\* The argument lists of new Graph: none, true, false; and the arguments of
\* directed: none, true, false.
ConstructorArguments == {<<>>, <<"true">>, <<"false">>}

Toggles == {Undef, "true", "false"}

\* A caller constructing graphs G, directed or not, populating them and
\* reading or toggling their flag.
NextD ==
  \/ \E arguments \in ConstructorArguments : Construct(arguments)
  \/ \E toggle \in Toggles : Directed(G, toggle)
  \/ \E v \in ListVertices : AddVertex(G, v)
  \/ \E list \in ListsOf(ListVertices, Room(heap[G.V], MaxV)) : AddVertices(G, list)
  \/ \E e \in ListEdges : AddEdge(G, e)
  \/ \E list \in ListsOf(ListEdges, Room(heap[G.E], MaxE)) : AddEdges(G, list)

SpecD == Init /\ [][NextD]_vars

\* ================================================================ claims
GV == heap[G.V]
GE == heap[G.E]

\* The vocabulary of the claims
IsDirected(e) == e.directed = "true"
SameOrder(e1, e2) == e1.v1 = e2.v1 /\ e1.v2 = e2.v2
SwappedOrder(e1, e2) == e1.v1 = e2.v2 /\ e1.v2 = e2.v1
EqualEntries(e, E) == {i \in DOMAIN E : edge_equal(E[i], e)}
Max(S) == CHOOSE x \in S : \A y \in S : y <= x
MaxMultiplicity(E) ==
  Max({0} \cup {Cardinality(EqualEntries(E[i], E)) : i \in DOMAIN E})
NoLoop(E) == \A i \in DOMAIN E : E[i].v1 # E[i].v2

\* C1: edge.equal(e1, e2) holds exactly when (a) one of the two edges is
\* directed and the endpoints match in the same order, or (b) neither is
\* directed and the endpoints match in the same or in swapped order; so two
\* edges with the same endpoints in the same order and equal flags are equal.
\* Stated of every constructible edge against every entry of G.E, both ways.
EqualAsClaimed(e1, e2) ==
  \/ (IsDirected(e1) \/ IsDirected(e2)) /\ SameOrder(e1, e2)
  \/ (~IsDirected(e1)) /\ (~IsDirected(e2))
       /\ (SameOrder(e1, e2) \/ SwappedOrder(e1, e2))

C1_EqualRule ==
  \A e1 \in Edges : \A i \in DOMAIN GE :
    /\ edge_equal(e1, GE[i]) <=> EqualAsClaimed(e1, GE[i])
    /\ edge_equal(GE[i], e1) <=> EqualAsClaimed(GE[i], e1)
    /\ (SameOrder(e1, GE[i]) /\ e1.directed = GE[i].directed)
         => edge_equal(e1, GE[i])

\* C1 witness: G holds a directed (a, b) next to an undirected (b, a), which
\* edge.equal has just told apart.
C1_Witness ==
  /\ \E i \in DOMAIN GE : GE[i] = [v1 |-> "a", v2 |-> "b", directed |-> "true"]
  /\ \E i \in DOMAIN GE : GE[i] = [v1 |-> "b", v2 |-> "a", directed |-> Undef]
  /\ last.op = "edge.equal" /\ ~last.bool

\* C2 (as claimed): graph.isSimple(G) answers true if and only if G has no
\* loop and no edge of G has multiplicity above 1, the graph without edges
\* included.
C2_SimpleAsClaimed ==
  last.op = "isSimple"
    => (last.bool <=> (NoLoop(GE) /\ MaxMultiplicity(GE) <= 1))

C4_EdgeMultiplicity ==
  \A e \in Edges :
    LET m == edge_multiplicity(e, GE)
        k == Cardinality({i \in DOMAIN GE : GE[i] = e})
    IN /\ m = Cardinality(EqualEntries(e, GE))
       /\ m \in 0..Len(GE)
       /\ (\A i \in EqualEntries(e, GE) : GE[i] = e) => m = k

\* C4 witness: one edge was added twice to an empty G and edge.multiplicity
\* has just returned 2.
C4_Witness ==
  /\ Len(GE) = 2 /\ GE[1] = GE[2]
  /\ last.op = "edge.multiplicity" /\ last.num = 2

\* C10 (as claimed): for an undirected e1 = (v1, v2) and an e2 = (v2, v1),
\* edge.equal(e1, e2) holds if and only if neither is directed. Stated of
\* every undirected constructible edge against every entry of G.E, once
\* edge.equal has been applied.
C10_ReversedAsClaimed ==
  last.op = "edge.equal"
    => \A e1 \in Edges : \A i \in DOMAIN GE :
         ((~IsDirected(e1)) /\ SwappedOrder(e1, GE[i]))
           => (edge_equal(e1, GE[i])
                 <=> ((~IsDirected(e1)) /\ ~IsDirected(GE[i])))

\* C10 (amended): for distinct v1, v2, an undirected e1 = (v1, v2) and an
\* e2 = (v2, v1), edge.equal(e1, e2) holds if and only if e2 is not directed
\* either; for v1 = v2 the two edges are equal whatever their flags.
C10_Reversed ==
  \A e1 \in Edges : \A i \in DOMAIN GE :
    ((~IsDirected(e1)) /\ SwappedOrder(e1, GE[i]))
      => /\ (e1.v1 # e1.v2)
              => (edge_equal(e1, GE[i]) <=> ~IsDirected(GE[i]))
         /\ (e1.v1 = e1.v2) => edge_equal(e1, GE[i])

\* C10 witness: G holds the directed (b, a) and the directed loop (a, a),
\* and edge.equal has just found an edge different from an entry of G.
C10_Witness ==
  /\ \E i \in DOMAIN GE : GE[i] = [v1 |-> "b", v2 |-> "a", directed |-> "true"]
  /\ \E i \in DOMAIN GE : GE[i] = [v1 |-> "a", v2 |-> "a", directed |-> "true"]
  /\ last.op = "edge.equal" /\ ~last.bool

\* C5: a new graph has order 0 and size 0; a successful addVertex raises the
\* order by exactly 1, a successful addVertices by the length of its list,
\* and both leave E alone; a successful addEdge raises the size by exactly
\* 1, a successful addEdges by the length of its list, and both leave V
\* alone; the entries already held keep their positions.
Grown(old, new, k) ==
  Len(new) = Len(old) + k /\ SubSeq(new, 1, Len(old)) = old

C5_Step ==
  /\ (last'.op = "addVertex" /\ ~last'.thrown)
       => \A v \in Values :
            AddVertex(G, v)
              => /\ graph_order(GV') = graph_order(GV) + 1
                 /\ Grown(GV, GV', 1) /\ GE' = GE
  /\ (last'.op = "addVertices" /\ ~last'.thrown)
       => \A list \in ListsOf(ListVertices, Room(GV, MaxV)) :
            AddVertices(G, list)
              => /\ graph_order(GV') = graph_order(GV) + Len(list)
                 /\ Grown(GV, GV', Len(list)) /\ GE' = GE
  /\ (last'.op = "addEdge" /\ ~last'.thrown)
       => \A e \in EdgeArgs :
            AddEdge(G, e)
              => /\ graph_size(GE') = graph_size(GE) + 1
                 /\ Grown(GE, GE', 1) /\ GV' = GV
  /\ (last'.op = "addEdges" /\ ~last'.thrown)
       => \A list \in ListsOf(ListEdges, Room(GE, MaxE)) :
            AddEdges(G, list)
              => /\ graph_size(GE') = graph_size(GE) + Len(list)
                 /\ Grown(GE, GE', Len(list)) /\ GV' = GV

C5_Counting ==
  /\ graph_order(GV) = 0 /\ graph_size(GE) = 0
  /\ [][C5_Step]_vars

\* C5 witness: the same vertex was added twice and the order is 2.
C5_Witness ==
  /\ GV = <<"a", "a">> /\ graph_order(GV) = 2
  /\ last.op \in {"addVertex", "addVertices"} /\ ~last.thrown

\* C6 (as claimed): new Edge throws when an endpoint is absent or null;
\* addVertex(v) throws for a number, a string, undefined and null, and
\* addEdge(e) throws for an e lacking an endpoint, and a call that throws
\* leaves V and E as they were.
Absent(v) == v \in {Undef, Null}

C6_Step ==
  /\ last'.op = "new Edge"
       => \A v1 \in Values, v2 \in Values, d \in Flags :
            (NewEdge(v1, v2, d) /\ (Absent(v1) \/ Absent(v2)))
              => last'.thrown /\ heap' = heap
  /\ last'.op = "addVertex"
       => \A v \in Values \ Objects :
            AddVertex(G, v) => last'.thrown /\ heap' = heap
  /\ last'.op = "addEdge"
       => \A e \in EdgeArgs :
            (AddEdge(G, e) /\ (Absent(e.v1) \/ Absent(e.v2)))
              => last'.thrown /\ heap' = heap

C6_RejectsAsClaimed == [][C6_Step]_vars

\* C7: addVertices and addEdges add the elements in list order up to the
\* first one that fails validation: if that is element i, the call throws
\* and exactly the first i - 1 elements have been appended; if none fails,
\* all have been appended in list order and the call returns.
Min(S) == CHOOSE x \in S : \A y \in S : x <= y

Partial(old, new, list, failing, thrown) ==
  IF failing = {}
  THEN new = old \o list /\ ~thrown
  ELSE new = old \o SubSeq(list, 1, Min(failing) - 1) /\ thrown

C7_Step ==
  /\ last'.op = "addVertices"
       => \A list \in ListsOf(ListVertices, Room(GV, MaxV)) :
            AddVertices(G, list)
              => Partial(GV, GV', list,
                         {i \in DOMAIN list : addVertex(<<>>, list[i]).thrown},
                         last'.thrown)
  /\ last'.op = "addEdges"
       => \A list \in ListsOf(ListEdges, Room(GE, MaxE)) :
            AddEdges(G, list)
              => Partial(GE, GE', list,
                         {i \in DOMAIN list : addEdge(<<>>, list[i]).thrown},
                         last'.thrown)

C7_PartialLists == [][C7_Step]_vars

\* C7 witness: addVertices threw after it had appended one vertex.
C7_Witness ==
  last.op = "addVertices" /\ last.thrown /\ last.num = 1 /\ Len(GV) >= 1

\* C3 (as claimed): for u, v taken from G.V, the undirected edge (u, v) is
\* contained in complement(G) if and only if it is an anti-edge of G,
\* whatever the flags of the edges of G.
C3_ComplementAsClaimed ==
  (last.op = "complement" /\ ~last.thrown)
    => \A i \in DOMAIN GV, j \in DOMAIN GV :
         LET e == Edge(GV[i], GV[j], Undef).value
         IN graph_containsEdge(heap[C.E], e) <=> graph_isAntiEdge(GE, e)

\* C8: no function of graph.* and edge.* changes its inputs; complement(G)
\* returns a graph with the vertices of G in the same order, and adding a
\* vertex or an edge to that graph afterwards leaves G.V and G.E as they were.
SameG == heap'[G.V] = heap[G.V] /\ heap'[G.E] = heap[G.E]

PureOps ==
  {"order", "size", "multiplicity", "hasLoops", "isSimple", "isMulti",
   "isPseudo", "containsEdge", "isAntiEdge", "edge.isLoop", "edge.isLink",
   "edge.equal", "edge.multiplicity", "edge.isMultiple", "edge.isSimple"}

C8_Step ==
  /\ last'.op \in PureOps => (heap' = heap /\ C' = C)
  /\ last'.op = "complement"
       => /\ SameG
          /\ (~last'.thrown) => (Live(C') /\ heap'[C'.V] = heap[G.V])
  /\ (last'.op \in {"addVertex", "addEdge"} /\ Live(C)) => SameG

C8_InputsUnchanged == [][C8_Step]_vars

\* C8 witness: a vertex was added to the complement, which now holds one
\* vertex more than G.
C8_Witness ==
  /\ Live(C) /\ last.op = "addVertex" /\ ~last.thrown
  /\ Len(heap[C.V]) = Len(GV) + 1

\* C11 (as claimed): the flag of a graph is fixed by its construction --
\* G.directed() reports a false value after new Graph() and true after
\* new Graph(true) -- and no call on the graph afterwards changes the value
\* G.directed() reports.
Reported(h) == Graph_directed(h[G._directed], Undef).value

C11_Step ==
  /\ last'.op = "new Graph"
       => /\ Construct(<<>>) => ~Truthy(Reported(heap'))
          /\ Construct(<<"true">>) => Reported(heap') = "true"
  /\ last'.op # "new Graph" => Reported(heap') = Reported(heap)

C11_FlagAsClaimed == [][C11_Step]_vars

\* C12 (as claimed): edge.equal is an equivalence relation over edges of
\* any mix of flags -- reflexive, symmetric and transitive -- and any two
\* entries of G.E equal to each other have the same edge.multiplicity in G.
\* Stated of the constructible edges e1, e3 around every entry of G.E, once
\* edge.equal or edge.multiplicity has been applied.
Reflexive == \A e \in Edges : edge_equal(e, e)

Symmetric ==
  \A e1 \in Edges : \A i \in DOMAIN GE :
    edge_equal(e1, GE[i]) <=> edge_equal(GE[i], e1)

TransitiveWhere(P(_, _, _)) ==
  \A e1 \in Edges, e3 \in Edges : \A i \in DOMAIN GE :
    (P(e1, GE[i], e3) /\ edge_equal(e1, GE[i]) /\ edge_equal(GE[i], e3))
      => edge_equal(e1, e3)

SameMultiplicity ==
  \A i \in DOMAIN GE, j \in DOMAIN GE :
    edge_equal(GE[i], GE[j])
      => edge_multiplicity(GE[i], GE) = edge_multiplicity(GE[j], GE)

AnyFlags(e1, e2, e3) == TRUE

AgreeingFlags(e1, e2, e3) == IsDirected(e2) \/ (IsDirected(e1) <=> IsDirected(e3))

OneFlag(E) == \A i \in DOMAIN E, j \in DOMAIN E : IsDirected(E[i]) <=> IsDirected(E[j])

====
